---- MODULE Spec2Model ----
(***************************************************************************)
(* bevy_orbits: Keplerian orbits, Hohmann-style transfer planning and the  *)
(* per-body transfer schedule.                                             *)
(*                                                                         *)
(* f32 quantities are fixed-point integers: lengths, eccentricities and    *)
(* angles carry Scale units per 1.0 (an angle of PI radians is PI units),  *)
(* times are whole time units.  The mass unit is chosen so that the        *)
(* orbital periods of the modelled orbits are a few time units.            *)
(* One body is modelled: execute_orbital_maneuvers and calculate_orbits    *)
(* visit each queried body independently, with no state shared between     *)
(* bodies.                                                                 *)
(***************************************************************************)
EXTENDS Integers, Sequences, FiniteSets, TLC

VARIABLES
    orbit,        \* the body's Orbit component
    schedule,     \* the body's TransferSchedule component
    translation,  \* the body's Transform.translation
    time,         \* Time::elapsed_seconds() of the latest tick
    op,           \* the operation that produced this state
    ret,          \* Option<Maneuver> returned by overdue_maneuver in the latest tick
    pushed,       \* history: the Transfers handed to push_transfer, in push order
    applied,      \* history: the Maneuvers applied to the Orbit, in application order
    plan_args,    \* arguments of the latest calculate_transfer call
    plan_result,  \* Option<Transfer> returned by that call
    plan_departure \* the mean anomaly of the start orbit at execution_time that call computed

vars == <<orbit, schedule, translation, time, op, ret, pushed, applied, plan_args, plan_result,
         plan_departure>>

schedule_vars == <<orbit, schedule, translation, time, op, ret, pushed, applied>>

plan_vars == <<plan_args, plan_result, plan_departure>>

----------------------------------------------------------------------------
(* Bounds of the model *)

MaxPushes == 2

MaxExecTime == 1

----------------------------------------------------------------------------
(* Fixed-point arithmetic standing for f32 *)

Scale == 10 ^ 2

PI == 314

TAU == 628

\* Any non-finite f32 (NaN, +inf, -inf).
NonFinite == -(10 ^ 6)

IsFinite(x) == x # NonFinite

\* The f32 operations are functions, so that an operand is evaluated once.
FAdd[x \in Int, y \in Int] == IF IsFinite(x) /\ IsFinite(y) THEN x + y ELSE NonFinite

FSub[x \in Int, y \in Int] == IF IsFinite(x) /\ IsFinite(y) THEN x - y ELSE NonFinite

FNeg[x \in Int] == IF IsFinite(x) THEN -x ELSE NonFinite

\* Product of two fixed-point numbers.
FMul[x \in Int, y \in Int] == IF IsFinite(x) /\ IsFinite(y) THEN (x * y) \div Scale ELSE NonFinite

\* Quotient of two fixed-point numbers; x / 0.0 is infinite or NaN.
FDiv[x \in Int, y \in Int] ==
    IF IsFinite(x) /\ IsFinite(y) /\ y # 0 THEN (x * Scale) \div y ELSE NonFinite

\* f32::rem_euclid: the non-negative remainder.
RemEuclid[x \in Int, m \in Int] ==
    IF IsFinite(x) /\ IsFinite(m) /\ m # 0 THEN x % m ELSE NonFinite

FAbs[x \in Int] == IF ~IsFinite(x) THEN NonFinite ELSE IF x < 0 THEN -x ELSE x

ISqrtSearch[n \in Int, lo \in Int, hi \in Int] ==
    IF lo >= hi THEN lo
    ELSE LET mid == (lo + hi + 1) \div 2
         IN  IF mid * mid <= n THEN ISqrtSearch[n, mid, hi] ELSE ISqrtSearch[n, lo, mid - 1]

\* Integer square root of a non-negative integer.
ISqrt[n \in Int] == ISqrtSearch[n, 0, IF n < 40000 THEN n ELSE 40000]

\* sin of an angle in [0, TAU), by Bhaskara's rational approximation.
Sin[x \in Int] ==
    LET half(y) == (16 * y * (PI - y) * Scale) \div (5 * PI * PI - 4 * y * (PI - y))
    IN  IF x <= PI THEN half(x) ELSE -half(x - PI)

Cos[x \in Int] == Sin[(x + PI \div 2) % TAU]

FSin[x \in Int] == IF IsFinite(x) THEN Sin[x % TAU] ELSE NonFinite

FCos[x \in Int] == IF IsFinite(x) THEN Cos[x % TAU] ELSE NonFinite

AcosSearch[c \in Int, lo \in Int, hi \in Int] ==
    IF lo >= hi THEN lo
    ELSE LET mid == (lo + hi) \div 2
         IN  IF Cos[mid] <= c THEN AcosSearch[c, lo, mid] ELSE AcosSearch[c, mid + 1, hi]

\* f32::acos: an angle in [0, PI], NaN outside [-1, 1].
FAcos[c \in Int] ==
    IF ~IsFinite(c) \/ c < -Scale \/ c > Scale THEN NonFinite ELSE AcosSearch[c, 0, PI]

----------------------------------------------------------------------------
(* Data model *)

Orbit(a, e, w, m) ==
    [semi_major_axis |-> a, eccentricity |-> e,
     argument_of_periapsis |-> w, initial_mean_anomaly |-> m]

Maneuver(s, t, at) == [start_orbit |-> s, target_orbit |-> t, execution_time |-> at]

Transfer(ms) == [maneuvers |-> ms]

\* #[derive(Default)]: no transfers queued.
TransferScheduleDefault == [transfers |-> <<>>]

\* Option<T> is a sequence of at most one element.
None == <<>>

Some(x) == <<x>>

ZERO == <<0, 0, 0>>

----------------------------------------------------------------------------
(* Orbital math (math.rs) *)

\* period = 2 pi sqrt(a^3 / mu), in time units.
calculate_period[semi_major_axis \in Int, parent_mass \in Int] ==
    IF ~IsFinite(semi_major_axis) \/ semi_major_axis < 0 \/ parent_mass <= 0
    THEN NonFinite
    ELSE (TAU * ISqrt[(semi_major_axis * semi_major_axis * semi_major_axis) \div parent_mass])
             \div (Scale * 10 ^ 3)

\* mean_motion = 2 pi / period, in angle units per time unit.
calculate_mean_motion[period \in Int] ==
    IF ~IsFinite(period) \/ period = 0 THEN NonFinite ELSE TAU \div period

\* mean_anomaly = (initial_mean_anomaly + mean_motion * time) mod 2 pi
calculate_mean_anomaly[mean_motion \in Int, initial_mean_anomaly \in Int, seconds \in Int] ==
    IF ~IsFinite(mean_motion) \/ ~IsFinite(seconds) THEN NonFinite
    ELSE RemEuclid[FAdd[initial_mean_anomaly, mean_motion * seconds], TAU]

\* The initial mean anomaly that yields mean_anomaly at the given time.
calculate_initial_mean_anomaly[mean_anomaly \in Int, period \in Int, seconds \in Int] ==
    LET mean_motion == calculate_mean_motion[period]
    IN  IF ~IsFinite(mean_motion) \/ ~IsFinite(seconds) THEN NonFinite
        ELSE RemEuclid[FSub[mean_anomaly, mean_motion * seconds], TAU]

\* Iteration budget of the Newton-Raphson solve of Kepler's equation.
KeplerIterations == 4

KeplerNewton[e \in Int, M \in Int, E \in Int, n \in Nat] ==
    IF n = 0 \/ ~IsFinite(E) THEN E
    ELSE KeplerNewton[e, M,
            FSub[E, FDiv[FSub[FSub[E, FMul[e, FSin[E]]], M], FSub[Scale, FMul[e, FCos[E]]]]],
            n - 1]

\* Solves E - e sin(E) = M for E, seeded at E = M.
calculate_eccentric_anomaly[eccentricity \in Int, mean_anomaly \in Int] ==
    KeplerNewton[eccentricity, mean_anomaly, mean_anomaly, KeplerIterations]

\* True anomaly in [0, pi] from the eccentric anomaly.
calculate_true_anomaly[eccentricity \in Int, eccentric_anomaly \in Int] ==
    LET c == FDiv[FSub[FCos[eccentric_anomaly], eccentricity],
                  FSub[Scale, FMul[eccentricity, FCos[eccentric_anomaly]]]]
    IN  IF ~IsFinite(c) THEN NonFinite
        ELSE FAcos[IF c > Scale THEN Scale ELSE IF c < -Scale THEN -Scale ELSE c]

\* Position relative to the parent, in the orbital (x, z) plane.
calculate_position_at_time[semi_major_axis \in Int, eccentricity \in Int, argument_of_periapsis \in Int, initial_mean_anomaly \in Int, parent_mass \in Int, seconds \in Int] ==
    LET period == calculate_period[semi_major_axis, parent_mass]
        mean_motion == calculate_mean_motion[period]
        mean_anomaly == calculate_mean_anomaly[
            mean_motion, FAdd[initial_mean_anomaly, argument_of_periapsis], seconds]
        eccentric_anomaly == calculate_eccentric_anomaly[eccentricity, mean_anomaly]
        half == calculate_true_anomaly[eccentricity, eccentric_anomaly]
        true_anomaly == IF IsFinite(mean_anomaly) /\ mean_anomaly < PI THEN half
                        ELSE FSub[TAU, half]
        radius == FMul[semi_major_axis, FSub[Scale, FMul[eccentricity, FCos[eccentric_anomaly]]]]
        angle == FAdd[true_anomaly, argument_of_periapsis]
    IN  <<FMul[radius, FCos[angle]], 0, FMul[radius, FSin[angle]]>>

----------------------------------------------------------------------------
(* Transfer schedule (transfer.rs) *)

\* push_transfer with push_front in place of push_back.
push_transfer_front(self, transfer) == [self EXCEPT !.transfers = <<transfer>> \o @]

push_transfer(self, transfer) == [self EXCEPT !.transfers = Append(@, transfer)]

\* overdue_maneuver without the execution_time test of lines 35-37.
overdue_maneuver_no_time_check(self, seconds) ==
    IF self.transfers = <<>> THEN [self |-> self, ret |-> None]
    ELSE
        LET next_transfer == Head(self.transfers) IN
        IF next_transfer.maneuvers = <<>> THEN [self |-> self, ret |-> None]
        ELSE
            LET popped == [next_transfer EXCEPT !.maneuvers = Tail(@)] IN
            [self |-> [self EXCEPT !.transfers =
                           IF popped.maneuvers = <<>> THEN Tail(@)
                           ELSE <<popped>> \o Tail(@)],
             ret |-> Some(Head(next_transfer.maneuvers))]

\* overdue_maneuver taking the first due front maneuver of any queued Transfer.
overdue_maneuver_any_transfer(self, seconds) ==
    LET due == {i \in 1..Len(self.transfers) :
                   /\ self.transfers[i].maneuvers # <<>>
                   /\ ~(seconds < Head(self.transfers[i].maneuvers).execution_time)}
    IN  IF due = {} THEN [self |-> self, ret |-> None]
        ELSE
            LET i == CHOOSE j \in due : \A l \in due : j <= l
                popped == [self.transfers[i] EXCEPT !.maneuvers = Tail(@)]
            IN  [self |-> [self EXCEPT !.transfers =
                               SubSeq(@, 1, i - 1)
                               \o (IF popped.maneuvers = <<>> THEN <<>> ELSE <<popped>>)
                               \o SubSeq(@, i + 1, Len(@))],
                 ret |-> Some(Head(self.transfers[i].maneuvers))]

\* overdue_maneuver reading the due maneuver with front() instead of pop_front().
overdue_maneuver_front_only(self, seconds) ==
    IF self.transfers = <<>> THEN [self |-> self, ret |-> None]
    ELSE
        LET next_transfer == Head(self.transfers) IN
        IF next_transfer.maneuvers = <<>> THEN [self |-> self, ret |-> None]
        ELSE
            LET maybe_next_maneuver == Head(next_transfer.maneuvers) IN
            IF seconds < maybe_next_maneuver.execution_time THEN [self |-> self, ret |-> None]
            ELSE [self |-> self, ret |-> Some(maybe_next_maneuver)]

\* Returns the schedule after the call and the Option<Maneuver> it returns.
overdue_maneuver(self, seconds) ==
    IF self.transfers = <<>> THEN [self |-> self, ret |-> None]
    ELSE
        LET next_transfer == Head(self.transfers) IN
        IF next_transfer.maneuvers = <<>> THEN [self |-> self, ret |-> None]
        ELSE
            LET maybe_next_maneuver == Head(next_transfer.maneuvers) IN
            IF seconds < maybe_next_maneuver.execution_time THEN [self |-> self, ret |-> None]
            ELSE
                LET popped == [next_transfer EXCEPT !.maneuvers = Tail(@)] IN
                [self |-> [self EXCEPT !.transfers =
                               IF popped.maneuvers = <<>> THEN Tail(@)
                               ELSE <<popped>> \o Tail(@)],
                 ret |-> Some(maybe_next_maneuver)]

\* execute_orbital_maneuvers without the assignment of line 56.
execute_orbital_maneuvers_skip_anomaly(seconds, o, s) ==
    LET r == overdue_maneuver(s, seconds) IN
    IF r.ret # None
    THEN LET next_maneuver == r.ret[1] IN
         [orbit |-> [o EXCEPT
                        !.semi_major_axis = next_maneuver.target_orbit.semi_major_axis,
                        !.eccentricity = next_maneuver.target_orbit.eccentricity,
                        !.argument_of_periapsis = next_maneuver.target_orbit.argument_of_periapsis],
          schedule |-> r.self, ret |-> r.ret]
    ELSE [orbit |-> o, schedule |-> r.self, ret |-> r.ret]

RECURSIVE ApplyAllOverdue(_, _, _, _)
ApplyAllOverdue(seconds, o, s, last) ==
    LET r == overdue_maneuver(s, seconds) IN
    IF r.ret = None THEN [orbit |-> o, schedule |-> s, ret |-> last]
    ELSE ApplyAllOverdue(seconds, r.ret[1].target_orbit, r.self, r.ret)

\* execute_orbital_maneuvers with `while let` in place of `if let` on line 52.
execute_orbital_maneuvers_all_overdue(seconds, o, s) == ApplyAllOverdue(seconds, o, s, None)

\* Returns the body's Orbit and TransferSchedule after the system ran, and
\* what overdue_maneuver returned.
execute_orbital_maneuvers(seconds, o, s) ==
    LET r == overdue_maneuver(s, seconds) IN
    IF r.ret # None
    THEN LET next_maneuver == r.ret[1] IN
         [orbit |-> [o EXCEPT
                        !.semi_major_axis = next_maneuver.target_orbit.semi_major_axis,
                        !.eccentricity = next_maneuver.target_orbit.eccentricity,
                        !.argument_of_periapsis = next_maneuver.target_orbit.argument_of_periapsis,
                        !.initial_mean_anomaly = next_maneuver.target_orbit.initial_mean_anomaly],
          schedule |-> r.self, ret |-> r.ret]
    ELSE [orbit |-> o, schedule |-> r.self, ret |-> r.ret]

----------------------------------------------------------------------------
(* Position system (lib.rs) and system order (plugin.rs) *)

\* The gravitational parameter calculate_orbits passes, in the model's mass unit.
PARENT_MASS == 25

\* calculate_orbits without the semi_major_axis == 0.0 branch of line 30.
calculate_orbits_no_guard(seconds, o) ==
    calculate_position_at_time[o.semi_major_axis, o.eccentricity,
        o.argument_of_periapsis, o.initial_mean_anomaly, PARENT_MASS, seconds]

\* Returns the body's Transform.translation after the system ran.
calculate_orbits(seconds, o) ==
    IF o.semi_major_axis = 0 THEN ZERO
    ELSE calculate_position_at_time[o.semi_major_axis, o.eccentricity,
             o.argument_of_periapsis, o.initial_mean_anomaly, PARENT_MASS, seconds]

\* The two systems with no ordering between them, calculate_orbits running first.
PostUpdate_position_first(seconds, o, s) ==
    LET m == execute_orbital_maneuvers(seconds, o, s) IN
    [orbit |-> m.orbit, schedule |-> m.schedule, ret |-> m.ret,
     translation |-> calculate_orbits(seconds, o)]

\* One run of the PostUpdate systems OrbitPlugin registers:
\* calculate_orbits.after(execute_orbital_maneuvers).
PostUpdate(seconds, o, s) ==
    LET m == execute_orbital_maneuvers(seconds, o, s) IN
    [orbit |-> m.orbit, schedule |-> m.schedule, ret |-> m.ret,
     translation |-> calculate_orbits(seconds, m.orbit)]

----------------------------------------------------------------------------
(* Transfer planner (transfer.rs) *)

\* Lines 85-91: the mean anomaly of the start orbit at execution_time, as
\* the circular planner computes it.
hohmann_start_mean_anomaly(start_orbit, parent_mass, execution_time) ==
    LET start_period == calculate_period[start_orbit.semi_major_axis, parent_mass]
        start_mean_motion == calculate_mean_motion[start_period]
    IN  calculate_mean_anomaly[
            start_mean_motion,
            FAdd[start_orbit.initial_mean_anomaly, start_orbit.argument_of_periapsis],
            execution_time]

\* Lines 146-149: the mean anomaly of the start orbit at execution_time, as
\* the tangential planner computes it.
tangential_departure_mean_anomaly(start_orbit, parent_mass, execution_time) ==
    LET seconds == execution_time
        start_period == calculate_period[start_orbit.semi_major_axis, parent_mass]
        start_mean_motion == calculate_mean_motion[start_period]
    IN  calculate_mean_anomaly[start_mean_motion, start_orbit.initial_mean_anomaly, seconds]

\* The circular planner with the exit time of line 112 half a period early.
common_focus_circular_to_circular_hohmann_transfer_early_exit(start_orbit, target_orbit, parent_mass, execution_time) ==
    LET start_mean_anomaly ==
            hohmann_start_mean_anomaly(start_orbit, parent_mass, execution_time)
        transfer_semi_major_axis ==
            (start_orbit.semi_major_axis + target_orbit.semi_major_axis) \div 2
        transfer_eccentricity ==
            FAbs[FSub[Scale, FDiv[start_orbit.semi_major_axis, transfer_semi_major_axis]]]
        transfer_period == calculate_period[transfer_semi_major_axis, parent_mass]
        transfer_argument_of_periapsis_offset ==
            IF start_orbit.semi_major_axis < transfer_semi_major_axis THEN 0 ELSE PI
        \* the method call binds tighter than the unary minus
        transfer_argument_of_periapsis ==
            FNeg[RemEuclid[FAdd[start_mean_anomaly, transfer_argument_of_periapsis_offset], TAU]]
        transfer_initial_mean_anomaly == calculate_initial_mean_anomaly[
            transfer_argument_of_periapsis_offset, transfer_period, execution_time]
        transfer_orbit == Orbit(transfer_semi_major_axis, transfer_eccentricity,
                                transfer_argument_of_periapsis, transfer_initial_mean_anomaly)
        enter_transfer_orbit_time == execution_time
        exit_transfer_orbit_time ==
            IF IsFinite(transfer_period) THEN execution_time - transfer_period \div 2
            ELSE NonFinite
        target_period == calculate_period[target_orbit.semi_major_axis, parent_mass]
        target_initial_mean_anomaly == calculate_initial_mean_anomaly[
            FAdd[PI, start_mean_anomaly], target_period, exit_transfer_orbit_time]
        actual_target_orbit == Orbit(target_orbit.semi_major_axis, target_orbit.eccentricity,
                                     0, target_initial_mean_anomaly)
        maneuver_1 == Maneuver(start_orbit, transfer_orbit, enter_transfer_orbit_time)
        maneuver_2 == Maneuver(transfer_orbit, actual_target_orbit, exit_transfer_orbit_time)
    IN  Transfer(<<maneuver_1, maneuver_2>>)

\* The circular planner with the sum of line 93 not halved.
common_focus_circular_to_circular_hohmann_transfer_no_halving(start_orbit, target_orbit, parent_mass, execution_time) ==
    LET start_mean_anomaly ==
            hohmann_start_mean_anomaly(start_orbit, parent_mass, execution_time)
        transfer_semi_major_axis ==
            start_orbit.semi_major_axis + target_orbit.semi_major_axis
        transfer_eccentricity ==
            FAbs[FSub[Scale, FDiv[start_orbit.semi_major_axis, transfer_semi_major_axis]]]
        transfer_period == calculate_period[transfer_semi_major_axis, parent_mass]
        transfer_argument_of_periapsis_offset ==
            IF start_orbit.semi_major_axis < transfer_semi_major_axis THEN 0 ELSE PI
        \* the method call binds tighter than the unary minus
        transfer_argument_of_periapsis ==
            FNeg[RemEuclid[FAdd[start_mean_anomaly, transfer_argument_of_periapsis_offset], TAU]]
        transfer_initial_mean_anomaly == calculate_initial_mean_anomaly[
            transfer_argument_of_periapsis_offset, transfer_period, execution_time]
        transfer_orbit == Orbit(transfer_semi_major_axis, transfer_eccentricity,
                                transfer_argument_of_periapsis, transfer_initial_mean_anomaly)
        enter_transfer_orbit_time == execution_time
        exit_transfer_orbit_time ==
            IF IsFinite(transfer_period) THEN execution_time + transfer_period \div 2
            ELSE NonFinite
        target_period == calculate_period[target_orbit.semi_major_axis, parent_mass]
        target_initial_mean_anomaly == calculate_initial_mean_anomaly[
            FAdd[PI, start_mean_anomaly], target_period, exit_transfer_orbit_time]
        actual_target_orbit == Orbit(target_orbit.semi_major_axis, target_orbit.eccentricity,
                                     0, target_initial_mean_anomaly)
        maneuver_1 == Maneuver(start_orbit, transfer_orbit, enter_transfer_orbit_time)
        maneuver_2 == Maneuver(transfer_orbit, actual_target_orbit, exit_transfer_orbit_time)
    IN  Transfer(<<maneuver_1, maneuver_2>>)

common_focus_circular_to_circular_hohmann_transfer(start_orbit, target_orbit, parent_mass, execution_time) ==
    LET start_mean_anomaly ==
            hohmann_start_mean_anomaly(start_orbit, parent_mass, execution_time)
        transfer_semi_major_axis ==
            (start_orbit.semi_major_axis + target_orbit.semi_major_axis) \div 2
        transfer_eccentricity ==
            FAbs[FSub[Scale, FDiv[start_orbit.semi_major_axis, transfer_semi_major_axis]]]
        transfer_period == calculate_period[transfer_semi_major_axis, parent_mass]
        transfer_argument_of_periapsis_offset ==
            IF start_orbit.semi_major_axis < transfer_semi_major_axis THEN 0 ELSE PI
        \* the method call binds tighter than the unary minus
        transfer_argument_of_periapsis ==
            FNeg[RemEuclid[FAdd[start_mean_anomaly, transfer_argument_of_periapsis_offset], TAU]]
        transfer_initial_mean_anomaly == calculate_initial_mean_anomaly[
            transfer_argument_of_periapsis_offset, transfer_period, execution_time]
        transfer_orbit == Orbit(transfer_semi_major_axis, transfer_eccentricity,
                                transfer_argument_of_periapsis, transfer_initial_mean_anomaly)
        enter_transfer_orbit_time == execution_time
        exit_transfer_orbit_time ==
            IF IsFinite(transfer_period) THEN execution_time + transfer_period \div 2
            ELSE NonFinite
        target_period == calculate_period[target_orbit.semi_major_axis, parent_mass]
        target_initial_mean_anomaly == calculate_initial_mean_anomaly[
            FAdd[PI, start_mean_anomaly], target_period, exit_transfer_orbit_time]
        actual_target_orbit == Orbit(target_orbit.semi_major_axis, target_orbit.eccentricity,
                                     0, target_initial_mean_anomaly)
        maneuver_1 == Maneuver(start_orbit, transfer_orbit, enter_transfer_orbit_time)
        maneuver_2 == Maneuver(transfer_orbit, actual_target_orbit, exit_transfer_orbit_time)
    IN  Transfer(<<maneuver_1, maneuver_2>>)

\* The values the 50 clamped Newton steps can leave in k: every step ends in
\* .max(1.0 - et).min(1.0 + et), which also replaces a NaN step by 1.0 - et.
KOutcomes(et) == {Scale - et, Scale, Scale + et}

\* k is the outcome of the root search of lines 183-188.
common_focus_tangential_hohmann_transfer(start_orbit, target_orbit, parent_mass, execution_time, k) ==
    LET seconds == execution_time
        departure_mean_anomaly ==
            tangential_departure_mean_anomaly(start_orbit, parent_mass, seconds)
        departure_eccentric_anomaly ==
            calculate_eccentric_anomaly[start_orbit.eccentricity, departure_mean_anomaly]
        half == calculate_true_anomaly[start_orbit.eccentricity, departure_eccentric_anomaly]
        departure_true_anomaly ==
            IF IsFinite(departure_mean_anomaly) /\ departure_mean_anomaly < PI THEN half
            ELSE FSub[TAU, half]
        et == target_orbit.eccentricity
        acos_k == FAcos[FDiv[FSub[FAdd[k, FMul[et, et]], Scale], FMul[et, k]]]
        theta ==
            IF IsFinite(departure_true_anomaly) /\ departure_true_anomaly > PI
            THEN FSub[FAdd[FNeg[acos_k], departure_true_anomaly], TAU]
            ELSE FSub[departure_true_anomaly, acos_k]
        at == target_orbit.semi_major_axis
        transfer_periapsis == start_orbit.semi_major_axis
        pt == transfer_periapsis
        transfer_semi_major_axis ==
            FDiv[FMul[pt, FAdd[FMul[FMul[at, k], FCos[theta]], pt]],
                 FAdd[FMul[FMul[at, k], FSub[FCos[theta], Scale]], 2 * pt]]
        transfer_eccentricity == FSub[Scale, FDiv[transfer_periapsis, transfer_semi_major_axis]]
        transfer_argument_of_periapsis == FNeg[departure_true_anomaly]
        transfer_orbit == Orbit(transfer_semi_major_axis, transfer_eccentricity,
                                transfer_argument_of_periapsis, 0)
        actual_target_orbit == Orbit(target_orbit.semi_major_axis, target_orbit.eccentricity, 0, 0)
        maneuver_1 == Maneuver(start_orbit, transfer_orbit, 0)
        maneuver_2 == Maneuver(transfer_orbit, actual_target_orbit, 0)
    IN  Transfer(<<maneuver_1, maneuver_2>>)

calculate_transfer(start_orbit, target_orbit, parent_mass, execution_time, k) ==
    IF start_orbit.eccentricity = 0 /\ target_orbit.eccentricity = 0
    THEN common_focus_circular_to_circular_hohmann_transfer(
             start_orbit, target_orbit, parent_mass, execution_time)
    ELSE common_focus_tangential_hohmann_transfer(
             start_orbit, target_orbit, parent_mass, execution_time, k)

\* The departure mean anomaly computed inside the planner calculate_transfer
\* dispatches to.
calculate_transfer_departure(start_orbit, target_orbit, parent_mass, execution_time) ==
    IF start_orbit.eccentricity = 0 /\ target_orbit.eccentricity = 0
    THEN hohmann_start_mean_anomaly(start_orbit, parent_mass, execution_time)
    ELSE tangential_departure_mean_anomaly(start_orbit, parent_mass, execution_time)

----------------------------------------------------------------------------
(* Inputs *)

\* The orbit the examples spawn the body with (a = 2, e = 0).
InitialOrbit == Orbit(2 * Scale, 0, 0, 0)

OuterOrbit == Orbit(4 * Scale, 0, 0, 0)

EccentricOrbit == Orbit(4 * Scale, Scale \div 2, 0, 0)

\* Transfers a caller hands to push_transfer: planned raises at every
\* execution time, a planned lowering, a planned general-case transfer, and
\* Transfer::default(), which holds no maneuver.
TransferInputs ==
    {calculate_transfer(InitialOrbit, OuterOrbit, PARENT_MASS, t, Scale) : t \in 0..MaxExecTime}
    \cup {calculate_transfer(OuterOrbit, InitialOrbit, PARENT_MASS, MaxExecTime, Scale),
          calculate_transfer(InitialOrbit, EccentricOrbit, PARENT_MASS, 0, Scale),
          Transfer(<<>>)}

\* The latest simulation time the host reaches: past every planned execution time.
MaxTime == MaxExecTime + calculate_period[4 * Scale, PARENT_MASS] \div 2

PlanOrbits ==
    {Orbit(a, e, w, m) : a \in {0, 2 * Scale, 4 * Scale}, e \in {0, Scale \div 2},
                         w \in {0, PI \div 2}, m \in {0, PI}}

PlanTargets == {Orbit(a, e, 0, 0) : a \in {0, 2 * Scale, 4 * Scale}, e \in {0, Scale \div 2}}

PlanMasses == {PARENT_MASS, 4 * PARENT_MASS}

----------------------------------------------------------------------------
(* The schedule of one body under pushes and ticks *)

Init ==
    /\ orbit = InitialOrbit
    /\ schedule = TransferScheduleDefault
    /\ translation = ZERO
    /\ time = 0
    /\ op = "spawn"
    /\ ret = None
    /\ pushed = <<>>
    /\ applied = <<>>
    /\ plan_args = None
    /\ plan_result = None
    /\ plan_departure = None

\* A caller appends a Transfer to the body's schedule.
PushTransfer ==
    \E transfer \in TransferInputs :
        /\ Len(pushed) < MaxPushes
        /\ schedule' = push_transfer(schedule, transfer)
        /\ pushed' = Append(pushed, transfer)
        /\ op' = "push_transfer"
        /\ UNCHANGED <<orbit, translation, time, ret, applied, plan_vars>>

\* The host runs the PostUpdate systems at a simulation time not before the
\* previous tick's.
Tick ==
    \E seconds \in time..MaxTime :
        LET r == PostUpdate(seconds, orbit, schedule) IN
        /\ orbit' = r.orbit
        /\ schedule' = r.schedule
        /\ translation' = r.translation
        /\ ret' = r.ret
        /\ time' = seconds
        /\ applied' = IF r.ret # None THEN Append(applied, r.ret[1]) ELSE applied
        /\ op' = "tick"
        /\ UNCHANGED <<pushed, plan_vars>>

Next == PushTransfer \/ Tick

Spec == Init /\ [][Next]_vars

\* The host keeps running frames.
FairSpec == Spec /\ WF_vars(Tick)

----------------------------------------------------------------------------
(* Calls of the planner *)

PlanInit ==
    /\ orbit = InitialOrbit
    /\ schedule = TransferScheduleDefault
    /\ translation = ZERO
    /\ time = 0
    /\ op = "spawn"
    /\ ret = None
    /\ pushed = <<>>
    /\ applied = <<>>
    /\ plan_args \in {Some([start_orbit |-> s, target_orbit |-> t, parent_mass |-> m,
                            execution_time |-> x]) :
                         s \in PlanOrbits, t \in PlanTargets, m \in PlanMasses,
                         x \in 0..MaxExecTime}
    /\ plan_result = None
    /\ plan_departure = None

\* calculate_transfer runs on the arguments and returns.
CalculateTransfer ==
    /\ plan_result = None
    /\ \E k \in KOutcomes(plan_args[1].target_orbit.eccentricity) :
           plan_result' = Some(calculate_transfer(
               plan_args[1].start_orbit, plan_args[1].target_orbit,
               plan_args[1].parent_mass, plan_args[1].execution_time, k))
    /\ plan_departure' = Some(calculate_transfer_departure(
           plan_args[1].start_orbit, plan_args[1].target_orbit,
           plan_args[1].parent_mass, plan_args[1].execution_time))
    /\ UNCHANGED <<plan_args, schedule_vars>>

PlanNext == CalculateTransfer

PlanSpec == PlanInit /\ [][PlanNext]_vars

----------------------------------------------------------------------------
(* A body with any orbit and no schedule entries, ticked by the host *)

BodyInit ==
    /\ orbit \in PlanOrbits
    /\ schedule = TransferScheduleDefault
    /\ translation = ZERO
    /\ time = 0
    /\ op = "spawn"
    /\ ret = None
    /\ pushed = <<>>
    /\ applied = <<>>
    /\ plan_args = None
    /\ plan_result = None
    /\ plan_departure = None

BodyNext == Tick

BodySpec == BodyInit /\ [][BodyNext]_vars

----------------------------------------------------------------------------
(* Vocabulary of the properties *)

RECURSIVE Flatten(_)
\* The maneuvers of a sequence of Transfers, front to back.
Flatten(transfers) ==
    IF transfers = <<>> THEN <<>>
    ELSE Head(transfers).maneuvers \o Flatten(Tail(transfers))

Queued(s) == Flatten(s.transfers)

HasFront(s) == s.transfers # <<>> /\ Head(s.transfers).maneuvers # <<>>

FrontManeuver(s) == Head(Head(s.transfers).maneuvers)

\* x <= y on f32: false when either side is NaN.
Leq(x, y) == IsFinite(x) /\ IsFinite(y) /\ x <= y

PlannedManeuvers == plan_result[1].maneuvers

\* All four elements of an Orbit are numbers.
FiniteOrbit(o) ==
    /\ IsFinite(o.semi_major_axis)
    /\ IsFinite(o.eccentricity)
    /\ IsFinite(o.argument_of_periapsis)
    /\ IsFinite(o.initial_mean_anomaly)

----------------------------------------------------------------------------
(* Properties of the transfer schedule *)

\* C1: a tick at a time t >= the execution_time of the front Maneuver of the
\* front Transfer returns that maneuver, removes it from its Transfer (and the
\* Transfer from the schedule when that empties it) and leaves the body's
\* Orbit equal to the maneuver's target_orbit in all four fields.
C1_DueManeuverApplied ==
    [][(/\ op' = "tick"
        /\ HasFront(schedule)
        /\ time' >= FrontManeuver(schedule).execution_time)
       => (/\ ret' = Some(FrontManeuver(schedule))
           /\ orbit' = FrontManeuver(schedule).target_orbit
           /\ schedule'.transfers =
                  IF Len(Head(schedule.transfers).maneuvers) = 1
                  THEN Tail(schedule.transfers)
                  ELSE <<Transfer(Tail(Head(schedule.transfers).maneuvers))>>
                           \o Tail(schedule.transfers))]_vars

\* A tick has just applied a maneuver that changed the Orbit's initial_mean_anomaly.
C1_Witness ==
    /\ op = "tick"
    /\ ret # None
    /\ orbit = ret[1].target_orbit
    /\ ret[1].target_orbit.initial_mean_anomaly # ret[1].start_orbit.initial_mean_anomaly
    /\ ret[1].target_orbit.semi_major_axis # ret[1].start_orbit.semi_major_axis

\* C2: a tick at a time t at which the schedule is empty, or t < the
\* execution_time of the front Maneuver of the front Transfer, leaves the Orbit
\* and the whole TransferSchedule unchanged and returns no maneuver.
C2_NothingBeforeItsTime ==
    [][(/\ op' = "tick"
        /\ \/ schedule.transfers = <<>>
           \/ HasFront(schedule) /\ time' < FrontManeuver(schedule).execution_time)
       => (ret' = None /\ orbit' = orbit /\ schedule' = schedule)]_vars

\* A tick ran before the front maneuver's time and the maneuver is still queued.
C2_Witness ==
    /\ op = "tick"
    /\ ret = None
    /\ HasFront(schedule)
    /\ time < FrontManeuver(schedule).execution_time
    /\ time > 0

\* C3: one tick removes at most one Maneuver from the schedule, whatever the
\* number of queued maneuvers whose execution_time has passed.
C3_AtMostOnePerTick ==
    [][op' = "tick"
       => (/\ Len(Queued(schedule')) >= Len(Queued(schedule)) - 1
           /\ Len(applied') <= Len(applied) + 1)]_vars

\* A tick applied a maneuver and left the next one, already overdue, queued.
C3_Witness ==
    /\ op = "tick"
    /\ ret # None
    /\ HasFront(schedule)
    /\ FrontManeuver(schedule).execution_time <= time

\* C4: the maneuvers applied so far are a prefix of the concatenation of the
\* pushed Transfers in push order: no maneuver of a later Transfer is applied
\* while an earlier Transfer still holds one.
C4_AppliedInPushOrder ==
    /\ Len(applied) <= Len(Flatten(pushed))
    /\ applied = SubSeq(Flatten(pushed), 1, Len(applied))

\* A tick applied nothing although the second queued Transfer's front
\* maneuver was due, because the front Transfer's was not.
C4_Witness ==
    /\ op = "tick"
    /\ ret = None
    /\ Len(schedule.transfers) >= 2
    /\ HasFront(schedule)
    /\ time < FrontManeuver(schedule).execution_time
    /\ schedule.transfers[2].maneuvers # <<>>
    /\ Head(schedule.transfers[2].maneuvers).execution_time <= time

\* C5: when the host keeps ticking up to a time past every queued
\* execution_time, every pushed maneuver is eventually applied, the schedule
\* is empty again after every push, and only a push makes it non-empty.
C5_ScheduleDrains ==
    /\ []<>(schedule.transfers = <<>> /\ Len(applied) = Len(Flatten(pushed)))
    /\ [][(schedule.transfers = <<>> /\ schedule'.transfers # <<>>)
          => op' = "push_transfer"]_vars

\* C6: every pushed maneuver is either still queued or was applied exactly
\* once; the number of queued maneuvers falls only by one, in a tick that
\* returns the maneuver removed, and rises only in push_transfer.
C6_AppliedExactlyOnce ==
    /\ [](applied \o Queued(schedule) = Flatten(pushed))
    /\ [][/\ (Len(Queued(schedule')) < Len(Queued(schedule)))
              => (/\ op' = "tick"
                  /\ ret' # None
                  /\ Queued(schedule) = ret' \o Queued(schedule'))
          /\ (Len(Queued(schedule')) > Len(Queued(schedule)))
              => op' = "push_transfer"]_vars

\* A tick at a time past an applied maneuver's execution_time applied nothing.
C6_Witness ==
    /\ op = "tick"
    /\ ret = None
    /\ applied # <<>>
    /\ applied[Len(applied)].execution_time <= time
    /\ Queued(schedule) # <<>>

\* C7: push_transfer appends the Transfer at the back of the schedule, keeps
\* the queued Transfers and their order, and leaves the Orbit unchanged.
C7_PushAppends ==
    [][op' = "push_transfer"
       => (/\ Len(pushed') = Len(pushed) + 1
           /\ schedule'.transfers = Append(schedule.transfers, pushed'[Len(pushed')])
           /\ orbit' = orbit)]_vars

\* A Transfer whose first start_orbit differs from the body's Orbit was
\* pushed behind a queued Transfer.
C7_Witness ==
    /\ op = "push_transfer"
    /\ Len(schedule.transfers) >= 2
    /\ schedule.transfers[Len(schedule.transfers)] = pushed[Len(pushed)]
    /\ pushed[Len(pushed)].maneuvers # <<>>
    /\ pushed[Len(pushed)].maneuvers[1].start_orbit # orbit

\* C8: the position a tick computes in which a maneuver is applied is the
\* position of the maneuver's target_orbit at the tick's time.
C8_PositionFromTargetOrbit ==
    [][(op' = "tick" /\ ret' # None)
       => translation' = calculate_orbits(time', ret'[1].target_orbit)]_vars

\* The first maneuver was applied in a tick whose position differs from the
\* position of the orbit the body had before.
C8_Witness ==
    /\ op = "tick"
    /\ ret # None
    /\ Len(applied) = 1
    /\ translation = calculate_orbits(time, orbit)
    /\ translation # calculate_orbits(time, InitialOrbit)

\* C14: no Transfer with zero maneuvers sits in the schedule: the schedule is
\* empty, or every queued Transfer, the front one included, holds a maneuver
\* that a tick at or after its execution_time can apply.
C14_NoEmptyTransferQueued ==
    \A i \in 1..Len(schedule.transfers) : schedule.transfers[i].maneuvers # <<>>

----------------------------------------------------------------------------
(* Properties of the planner *)

\* C9: the Transfer calculate_transfer returns has exactly two maneuvers and
\* its first maneuver's execution_time is the execution_time argument.
C9_FirstManeuverAtExecutionTime ==
    plan_result # None
    => (/\ Len(PlannedManeuvers) = 2
        /\ PlannedManeuvers[1].execution_time = plan_args[1].execution_time)

\* C10: the maneuvers of the Transfer calculate_transfer returns are ordered
\* front to back by non-decreasing execution_time.
C10_ManeuversOrdered ==
    plan_result # None
    => \A i \in 1..(Len(PlannedManeuvers) - 1) :
           Leq(PlannedManeuvers[i].execution_time, PlannedManeuvers[i + 1].execution_time)

\* A circular-to-circular plan whose second maneuver is strictly later.
C10_Witness ==
    /\ plan_result # None
    /\ plan_args[1].start_orbit.eccentricity = 0
    /\ plan_args[1].target_orbit.eccentricity = 0
    /\ Len(PlannedManeuvers) = 2
    /\ PlannedManeuvers[1].execution_time < PlannedManeuvers[2].execution_time

\* C11: for two circular input orbits the first maneuver's target orbit has
\* semi_major_axis (a_start + a_target) / 2 and eccentricity
\* |1 - a_start / transfer_semi_major_axis| (3 and 1/3 for a_start = 2 and
\* a_target = 4; not a number when both semi-major axes are 0), and the second
\* maneuver's target orbit has the target's semi_major_axis and eccentricity
\* and argument_of_periapsis 0.
C11_HohmannElements ==
    (/\ plan_result # None
     /\ plan_args[1].start_orbit.eccentricity = 0
     /\ plan_args[1].target_orbit.eccentricity = 0)
    => LET a_start == plan_args[1].start_orbit.semi_major_axis
           a_target == plan_args[1].target_orbit.semi_major_axis
           first == PlannedManeuvers[1].target_orbit
           second == PlannedManeuvers[2].target_orbit
           a == first.semi_major_axis
           e == first.eccentricity
       IN  /\ 2 * a = a_start + a_target
           \* e = |a - a_start| / a, to the resolution of the division
           /\ IF a = 0 THEN ~IsFinite(e)
              ELSE /\ IsFinite(e)
                   /\ e >= 0
                   /\ e * a - Scale * (IF a >= a_start THEN a - a_start ELSE a_start - a) <= a
                   /\ Scale * (IF a >= a_start THEN a - a_start ELSE a_start - a) - e * a <= a
           /\ (a_start = 2 * Scale /\ a_target = 4 * Scale)
              => (a = 3 * Scale /\ e \in {Scale \div 3, Scale \div 3 + 1})
           /\ second.semi_major_axis = a_target
           /\ second.eccentricity = plan_args[1].target_orbit.eccentricity
           /\ second.argument_of_periapsis = 0

\* The raise of the example from a = 2 to a = 4 was planned for a start orbit
\* whose argument_of_periapsis is not 0, and a lowering from 4 to 2 exists too.
C11_Witness ==
    /\ plan_result # None
    /\ plan_args[1].start_orbit.eccentricity = 0
    /\ plan_args[1].target_orbit.eccentricity = 0
    /\ plan_args[1].start_orbit.semi_major_axis = 2 * Scale
    /\ plan_args[1].target_orbit.semi_major_axis = 4 * Scale
    /\ plan_args[1].start_orbit.argument_of_periapsis # 0
    /\ PlannedManeuvers[1].target_orbit.semi_major_axis = 3 * Scale
    /\ PlannedManeuvers[1].target_orbit.argument_of_periapsis # 0
    /\ PlannedManeuvers[2].target_orbit.argument_of_periapsis = 0

\* C12: for input orbits with positive semi-major axes, no Transfer that
\* calculate_transfer returns holds an orbit with a NaN or infinite element:
\* where the root search fails or a denominator is zero, no Transfer is
\* returned.
C12_NoUndefinedElements ==
    (/\ plan_result # None
     /\ plan_args[1].start_orbit.semi_major_axis > 0
     /\ plan_args[1].target_orbit.semi_major_axis > 0)
    => \A i \in 1..Len(PlannedManeuvers) :
           /\ FiniteOrbit(PlannedManeuvers[i].start_orbit)
           /\ FiniteOrbit(PlannedManeuvers[i].target_orbit)

\* C15: for two circular input orbits and a start orbit with a positive
\* semi-major axis, the argument_of_periapsis of the transfer orbit lies in
\* [0, 2*pi), for every start orbit and execution_time.
C15_TransferPeriapsisWrapped ==
    (/\ plan_result # None
     /\ plan_args[1].start_orbit.eccentricity = 0
     /\ plan_args[1].target_orbit.eccentricity = 0
     /\ plan_args[1].start_orbit.semi_major_axis > 0)
    => LET w == PlannedManeuvers[1].target_orbit.argument_of_periapsis
       IN  IsFinite(w) /\ 0 <= w /\ w < TAU

\* C16: both planning paths take the mean anomaly of the start orbit at
\* execution_time from the phase offset initial_mean_anomaly +
\* argument_of_periapsis, the offset the position calculator uses, so for the
\* same start orbit and time the departure phase they compute is the
\* calculator's mean anomaly.
C16_SamePhaseOffset ==
    plan_result # None
    => LET start_orbit == plan_args[1].start_orbit
           mean_motion == calculate_mean_motion[
               calculate_period[start_orbit.semi_major_axis, plan_args[1].parent_mass]]
       IN  plan_departure = Some(calculate_mean_anomaly[
               mean_motion,
               FAdd[start_orbit.initial_mean_anomaly, start_orbit.argument_of_periapsis],
               plan_args[1].execution_time])

----------------------------------------------------------------------------
(* Properties of the position calculator *)

\* C13: the position a tick computes for an Orbit whose semi_major_axis is 0
\* is the origin, at every time and for every eccentricity,
\* argument_of_periapsis and initial_mean_anomaly.
C13_DegenerateBodyAtOrigin ==
    (op = "tick" /\ orbit.semi_major_axis = 0) => translation = ZERO

\* A tick after time 0 placed a body with semi_major_axis 0 and non-zero other
\* elements at the origin, where the position math gives another value.
C13_Witness ==
    /\ op = "tick"
    /\ time > 0
    /\ orbit.semi_major_axis = 0
    /\ orbit.eccentricity # 0
    /\ orbit.argument_of_periapsis # 0
    /\ orbit.initial_mean_anomaly # 0
    /\ translation = ZERO
    /\ calculate_position_at_time[orbit.semi_major_axis, orbit.eccentricity,
           orbit.argument_of_periapsis, orbit.initial_mean_anomaly, PARENT_MASS, time] # ZERO

====
